---- MODULE Spec2Model ----
(***************************************************************************)
(* LARS-MKL (examples/lars/lars_mkl.py) and poly_kernel                    *)
(* (mklaren/kernel/kernel.py) as state machines.                           *)
(*                                                                         *)
(* Numeric content that the code obtains from the kernel matrices and the  *)
(* response y is drawn from small sets: the look-ahead scores zy2 (or the  *)
(* residual diagonal when delta = 0) at each step, and the correlation     *)
(* q.y of each newly committed column of Q.  Everything else (index        *)
(* cursors, active sets, buffers' column layout, pivot history, costs,     *)
(* ordering, truncation, the path bookkeeping of mkl_lars) is computed as  *)
(* the code computes it.  Arrays are 0-based functions, Python lists are   *)
(* sequences (position i of the list is element i+1 of the sequence).      *)
(***************************************************************************)
EXTENDS Integers, Sequences, FiniteSets, TLC

\* ------------------------------------------------------------------ bounds
MaxK == 3        \* number of kernels k = len(Ks) ranges over 1..MaxK
MaxN == 3        \* number of samples n ranges over 1..MaxN
MaxRank == 3     \* requested rank ranges over 0..MaxRank
MaxDelta == 2    \* look-ahead delta ranges over 0..MaxDelta
MaxZ == 1        \* look-ahead score / residual diagonal values 0..MaxZ
MaxVal == 1      \* poly_kernel: entries of x and y in 0..MaxVal
MaxDim == 2      \* poly_kernel: feature dimension in 1..MaxDim
MaxRows == 2     \* poly_kernel: number of data points in 1..MaxRows
MaxP == 2        \* poly_kernel: degree p in 1..MaxP
MaxB == 1        \* poly_kernel: bias b in 0..MaxB

VARIABLES
    pc,        \* position: call, gains, select, finalize, returned, raised,
               \* lars_pair, lars_jump, lars_done, lars_raised
    err,       \* exception raised ("none" when none)
    warned,    \* number of warnings emitted by warn(msg)
    k, n,      \* len(Ks), Ks[0].shape[0]
    rank0,     \* the rank argument as passed
    rank,      \* the local 'rank' (truncated on early exit)
    delta,     \* the delta argument
    fid,       \* the penalty function f
    step,      \* loop index of mkl_qr
    Gs,        \* per kernel: column layout of its Cholesky buffer
    Acts,      \* per kernel: list of active pivots
    Inas,      \* per kernel: inactive pivots
    Q,         \* master Q: per column, which commit filled it and its q.y
    R,         \* master R: its shape <<rows, cols>>
    P,         \* pivot history: kernel of each committed column
    corr, cost, ncol,
    gain,      \* k x n gain matrix
    Ga,        \* per kernel: column indices of Gs[j] passed to zy2_app
    porder,    \* output column permutation
    ret,       \* value returned by mkl_qr: <<Q, R, P>>, or <<>> before it returns
    oriented,  \* history: whether qr_orient had a column to negate
    korder,    \* mkl_lars: distinct labels of P
    path,      \* mkl_lars: per row, the list of writers of that row
    t,         \* mkl_lars: cumulative column count
    li,        \* mkl_lars: index of the next pair
    c1c2,      \* mkl_lars: <<c1, c2>> of each pair evaluated
    upd,       \* mkl_lars: widths of Q[:, :t] used to update r and mu
    r,         \* mkl_lars: the array r is bound to: y's buffer, a new one, or nan
    ybuf,      \* content of the caller's y: "y", or "written" once overwritten
    kin,       \* poly_kernel: the call's arguments
    kout,      \* poly_kernel: <<returned value>>, or <<>> before the call
    kpc        \* poly_kernel: call / done

qrvars == <<k, n, rank0, rank, delta, fid, step, Gs, Acts, Inas, Q, R, P,
            corr, cost, ncol, gain, Ga, porder, warned>>
larsvars == <<korder, path, t, li, c1c2, upd, r, ybuf>>
kvars == <<kin, kout, kpc>>
vars == <<pc, err, ret, oriented, qrvars, larsvars, kvars>>

\* ----------------------------------------------------------------- helpers
Min(a, b) == IF a < b THEN a ELSE b

RECURSIVE SumTo(_, _)
\* sum of fn[i] for i in 0..m-1
SumTo(fn, m) == IF m <= 0 THEN 0 ELSE fn[m - 1] + SumTo(fn, m - 1)

RECURSIVE Pow(_, _)
Pow(a, e) == IF e = 0 THEN 1 ELSE a * Pow(a, e - 1)

\* 0-based positions of label j in the list lst: np.where(np.array(P) == j)[0]
RECURSIVE Where(_, _)
Where(lst, j) ==
    IF lst = <<>> THEN <<>>
    ELSE LET rest == Where(SubSeq(lst, 1, Len(lst) - 1), j)
         IN IF lst[Len(lst)] = j THEN Append(rest, Len(lst) - 1) ELSE rest

RECURSIVE Concat(_)
Concat(ss) == IF ss = <<>> THEN <<>> ELSE Head(ss) \o Concat(Tail(ss))

Range(s) == {s[i] : i \in DOMAIN s}

\* -np.inf
NegInf == -1000000

ZeroCol == [kern |-> -1, sel |-> -1, qy |-> 0]

\* ---------------------------------------------- primitives outside src/
\* Penalty policies f: column count -> positive real.  Three policies are
\* referenced (p_ri, p_const, p_sc); they are taken here as a constant, an
\* increasing and a decreasing function of the column count.
Penalties == {"p_const", "p_inc", "p_dec"}
f(id, p) ==
    CASE id = "p_const" -> 1
      [] id = "p_inc"   -> p + 1
      [] id = "p_dec"   -> MaxRank + 2 - p

\* Content of one column of a Cholesky buffer.
ZeroG == <<"zero">>
LookG == <<"look">>
PivG(i) == <<"pivot", i>>

\* cholesky_steps(K, G, start, act, ina, order, max_steps): extends G in
\* place from column 'start'.  With an explicit order it takes one step per
\* listed pivot and moves each from ina to act; without one it takes up to
\* max_steps steps on pivots it picks itself from ina.
cholesky_steps(G, start, act, ina, order, max_steps) ==
    LET steps == IF order # <<>> THEN Len(order)
                 ELSE Min(max_steps, Cardinality(ina))
    IN [G   |-> [c \in DOMAIN G |->
                   IF c >= start /\ c < start + steps
                   THEN (IF order # <<>> THEN PivG(order[c - start + 1]) ELSE LookG)
                   ELSE G[c]],
        act |-> act \o order,
        ina |-> ina \ Range(order)]

\* qr_steps(G, Q, R, max_steps=1, start, qstart): one new column of Q at
\* index qstart, built from column 'start' of G; its correlation with y is qy.
qr_steps(Qm, kern, qstart, qy) ==
    [Qm EXCEPT ![qstart] = [kern |-> kern, sel |-> qstart, qy |-> qy]]

\* Q has n rows, so it holds at most n orthonormal columns: a column of G
\* can be absorbed at index qstart only while qstart < n.  Beyond that the
\* new column lies in the span of Q, its orthogonal part is zero, the
\* normalised column is undefined and G = Q.R can no longer be maintained.
qr_absorbs(qstart) == qstart < n

\* qr_reorder(Q, R, rank, order): the first 'rank' columns of Q become the
\* columns order[0], order[1], ... of the old Q.
qr_reorder(Qm, rk, order) ==
    [c \in DOMAIN Qm |->
        IF c < rk /\ c < Len(order) THEN Qm[order[c + 1]] ELSE Qm[c]]

\* qr_orient(Q, R, y): flips every column whose correlation with y is negative.
qr_orient(Qm) ==
    [c \in DOMAIN Qm |->
        IF Qm[c].qy < 0 THEN [Qm[c] EXCEPT !.qy = 0 - Qm[c].qy] ELSE Qm[c]]

\* ------------------------------------------------------------------ mkl_qr
Kernels == 0 .. (k - 1)
Samples == 0 .. (n - 1)
Cells == Kernels \X Samples

\* zy2_app(G, Q, y, QTY): a vector of -inf when G has no column, otherwise
\* div(C, B), whose values zy come from the data.
zy2_app(GaCols, zy) ==
    IF GaCols = {} THEN [i \in Samples |-> NegInf] ELSE zy

\* Score profiles drawn for one step: all zero, or one cell standing out,
\* which is the last sample of some kernel that is not yet active for it
\* (or the kernel's last sample when all are).
LastInactive(j) ==
    IF Range(Acts[j]) = Samples THEN n - 1
    ELSE CHOOSE i \in Samples \ Range(Acts[j]) :
             \A m \in Samples \ Range(Acts[j]) : m <= i

Profiles ==
    {[j \in Kernels |-> [i \in Samples |-> 0]]}
    \cup {[j \in Kernels |-> [i \in Samples |->
                IF j = h /\ i = LastInactive(h) THEN v ELSE 0]] :
              h \in Kernels, v \in 1 .. MaxZ}

delta_unstable_zero(d) == d = 0

\* Correlation q.y of a newly built column of Q with y, as its sign: the
\* column is a unit vector, its direction in the plane of y comes from the data.
Correlations == {-1, 0, 1}

\* if delta == 1: raise ValueError
delta_unstable(d) == d = 1

\* Gs[j][:, step:step+delta] as the set of column indices it takes
LookaheadSlice(j) ==
    {c \in DOMAIN Gs[j] : c >= step /\ c < step + delta}

\* gain[j, Acts[j]] = -np.inf
MaskActive(j, row) ==
    [i \in Samples |-> IF i \in Range(Acts[j]) THEN NegInf ELSE row[i]]

\* np.unravel_index(np.argmax(gain), gain.shape): first maximum, row-major
ArgMax(g) ==
    CHOOSE c \in Cells :
        \A d \in Cells :
            \/ g[d[1]][d[2]] < g[c[1]][c[2]]
            \/ g[d[1]][d[2]] = g[c[1]][c[2]] /\ c[1] * n + c[2] <= d[1] * n + d[2]

truncated_rank_keep(st, rk) == rk

\* rank = step on early exit
truncated_rank(st, rk) == st

\* lines 40-71: the delta check, the buffers, the look-ahead seeding
mkl_qr_setup ==
    /\ pc = "call"
    /\ IF delta_unstable(delta)
       THEN /\ pc' = "raised"
            /\ err' = "ValueError: unstable delta"
            /\ UNCHANGED <<ret, oriented, qrvars, larsvars, kvars>>
       ELSE /\ Q' = [c \in 0 .. (rank + k * delta - 1) |-> ZeroCol]
            /\ R' = <<rank + k * delta, rank + k * delta>>
            /\ P' = <<>>
            /\ corr' = [j \in Kernels |-> 0]
            /\ cost' = [j \in Kernels |-> 0]
            /\ ncol' = [j \in Kernels |-> 0]
            /\ gain' = [j \in Kernels |-> [i \in Samples |-> 0]]
            /\ Acts' = [j \in Kernels |-> <<>>]
            /\ Inas' = [j \in Kernels |-> Samples]
            /\ Gs' = [j \in Kernels |->
                        LET G0 == [c \in 0 .. (rank + delta - 1) |-> ZeroG]
                        IN IF delta > 0
                           THEN cholesky_steps(G0, 0, <<>>, Samples, <<>>, delta).G
                           ELSE G0]
            /\ step' = 0
            /\ pc' = IF rank > 0 THEN "gains" ELSE "finalize"
            /\ UNCHANGED <<err, ret, oriented, k, n, rank0, rank, delta, fid, Ga, porder,
                           warned, larsvars, kvars>>

\* lines 77-87: the gain matrix of one step
mkl_qr_gains ==
    /\ pc = "gains"
    /\ \E zy \in Profiles :
          /\ Ga' = [j \in Kernels |-> IF delta > 0 THEN LookaheadSlice(j) ELSE {}]
          /\ gain' = [j \in Kernels |->
                IF delta > 0
                THEN LET zy2 == zy2_app(LookaheadSlice(j), zy[j])
                         row == [i \in Samples |->
                                   IF zy2[i] = NegInf THEN NegInf
                                   ELSE zy2[i] * f(fid, ncol[j] + 1)
                                        + (f(fid, ncol[j] + 1) - f(fid, ncol[j])) * corr[j]]
                     IN MaskActive(j, row)
                ELSE MaskActive(j, zy[j])]
    /\ pc' = "select"
    /\ UNCHANGED <<err, ret, oriented, k, n, rank0, rank, delta, fid, step, Gs, Acts, Inas,
                   Q, R, P, corr, cost, ncol, porder, warned, larsvars, kvars>>

\* lines 90-95: the maximal gain is exactly 0
mkl_qr_exhausted ==
    /\ pc = "select"
    /\ \E c \in {ArgMax(gain)} : gain[c[1]][c[2]] = 0
    /\ warned' = warned + 1
    /\ rank' = truncated_rank(step, rank)
    /\ pc' = "finalize"
    /\ UNCHANGED <<err, ret, oriented, k, n, rank0, delta, fid, step, Gs, Acts, Inas,
                   Q, R, P, corr, cost, ncol, gain, Ga, porder, larsvars, kvars>>

\* line 96: assert pivot not in Acts[kern]
mkl_qr_assert_pivot ==
    /\ pc = "select"
    /\ \E c \in {ArgMax(gain)} :
          /\ gain[c[1]][c[2]] # 0
          /\ c[2] \in Range(Acts[c[1]])
    /\ pc' = "raised"
    /\ err' = "AssertionError: pivot not in Acts[kern]"
    /\ UNCHANGED <<ret, oriented, qrvars, larsvars, kvars>>

\* lines 99-125: commit the pivot, refresh the look-ahead, update the costs
mkl_qr_commit ==
    /\ pc = "select"
    /\ \E c \in {ArgMax(gain)} :
       LET kern == c[1]
           pivot == c[2]
           P1 == Append(P, kern)
           k_inx == Where(P1, kern)
           k_num == Len(k_inx)
           k_start == k_num - 1
           Gz == [col \in DOMAIN Gs[kern] |->
                     IF col >= k_start THEN ZeroG ELSE Gs[kern][col]]
           ch == cholesky_steps(Gz, k_start, Acts[kern], Inas[kern], <<pivot>>, 0)
           max_steps == Min(delta, Cardinality(DOMAIN Gs[kern]) - k_num)
           la == cholesky_steps(ch.G, k_num, ch.act, Samples \ Range(ch.act),
                                <<>>, max_steps)
       IN /\ gain[kern][pivot] # 0
          /\ pivot \notin Range(Acts[kern])
          /\ qr_absorbs(step)
          /\ \E qy \in Correlations :
                LET Q1 == qr_steps(Q, kern, step, qy)
                    cr == SumTo([x \in 0 .. (k_num - 1) |->
                                   Q1[k_inx[x + 1]].qy * Q1[k_inx[x + 1]].qy], k_num)
                IN /\ Q' = Q1
                   /\ corr' = [corr EXCEPT ![kern] = cr]
                   /\ cost' = [cost EXCEPT ![kern] = cr * f(fid, ncol[kern] + 1)]
          /\ P' = P1
          /\ Gs' = [Gs EXCEPT ![kern] = la.G]
          /\ Acts' = [Acts EXCEPT ![kern] = ch.act]
          /\ Inas' = [Inas EXCEPT ![kern] = ch.ina]
          /\ ncol' = [ncol EXCEPT ![kern] = ncol[kern] + 1]
    /\ step' = step + 1
    /\ pc' = IF step + 1 < rank0 THEN "gains" ELSE "finalize"
    /\ UNCHANGED <<err, ret, oriented, k, n, rank0, rank, delta, fid, R, gain, Ga, porder,
                   warned, larsvars, kvars>>

\* lines 99-110: the pivot is committed to the kernel's factor, but Q is
\* already square: the assertion on G = Q.R after qr_steps fails
mkl_qr_assert_qr ==
    /\ pc = "select"
    /\ \E c \in {ArgMax(gain)} :
       LET kern == c[1]
           pivot == c[2]
           k_start == Len(Where(Append(P, kern), kern)) - 1
           Gz == [col \in DOMAIN Gs[kern] |->
                     IF col >= k_start THEN ZeroG ELSE Gs[kern][col]]
           ch == cholesky_steps(Gz, k_start, Acts[kern], Inas[kern], <<pivot>>, 0)
       IN /\ gain[kern][pivot] # 0
          /\ pivot \notin Range(Acts[kern])
          /\ ~qr_absorbs(step)
          /\ P' = Append(P, kern)
          /\ Gs' = [Gs EXCEPT ![kern] = ch.G]
          /\ Acts' = [Acts EXCEPT ![kern] = ch.act]
          /\ Inas' = [Inas EXCEPT ![kern] = ch.ina]
    /\ pc' = "raised"
    /\ err' = "AssertionError: G[:, :k_num] == Q.dot(R)[:, k_inx]"
    /\ UNCHANGED <<ret, oriented, k, n, rank0, rank, delta, fid, step, Q, R, corr, cost,
                   ncol, gain, Ga, porder, warned, larsvars, kvars>>

\* np.argsort(-cost): the orders of the kernels by non-increasing cost (the
\* default sort is not stable, so equal costs may come out in any order)
argsort_desc(c) ==
    {s \in [1 .. k -> Kernels] :
        /\ \A a, b \in 1 .. k : a # b => s[a] # s[b]
        /\ \A a, b \in 1 .. k : a < b => c[s[a]] >= c[s[b]]}

\* lines 130-132: porder.extend(np.where(np.array(P) == j)[0]) for j in korder
build_porder(ko) == Concat([x \in 1 .. Len(ko) |-> Where(P, ko[x])])

reorder_only(Qm, rk, order) == qr_reorder(Qm, rk, order)

\* lines 133-134: qr_reorder(Q, R, rank, porder); qr_orient(Q, R, y)
reorder_orient(Qm, rk, order) == qr_orient(qr_reorder(Qm, rk, order))

\* line 138: Q[:, :rank]
truncate_Q(Qm, rk) == [c \in {x \in DOMAIN Qm : x < rk} |-> Qm[c]]

\* line 139: R[:rank, :rank]
truncate_R(Rm, rk) == <<Min(rk, Rm[1]), Min(rk, Rm[2])>>

permute_P_none(Pl, order) == Pl

\* line 140: np.array(P)[porder]
permute_P(Pl, order) == [x \in 1 .. Len(order) |-> Pl[order[x] + 1]]

\* lines 127-141: ordering of the groups, orientation, truncation, return
mkl_qr_finalize ==
    /\ pc = "finalize"
    /\ \E ko \in argsort_desc(cost) :
       \E po \in {build_porder(ko)} :
       \E Q1 \in {reorder_orient(Q, rank, po)} :
             /\ porder' = po
             /\ Q' = Q1
             /\ Gs' = <<>>
             /\ oriented' = (\E c \in DOMAIN Q : Q[c].qy < 0)
             /\ IF rank = Len(po)
                THEN /\ ret' = <<truncate_Q(Q1, rank), truncate_R(R, rank),
                                 permute_P(P, po)>>
                     /\ pc' = "returned"
                     /\ err' = err
                ELSE /\ ret' = ret
                     /\ pc' = "raised"
                     /\ err' = "AssertionError: rank == len(porder)"
    /\ UNCHANGED <<k, n, rank0, rank, delta, fid, step, Acts, Inas, R, P,
                   corr, cost, ncol, gain, Ga, warned, larsvars, kvars>>

\* ---------------------------------------------------------------- mkl_lars
\* the arguments of mkl_lars: the Q and P that mkl_qr returned
LQ == ret[1]
LP == ret[3]
LCols == Cardinality(DOMAIN LQ)

\* sorted(set(P), key=lambda p: np.argmax(P == p)): first-occurrence order
RECURSIVE first_occurrences(_)
first_occurrences(lst) ==
    IF lst = <<>> THEN <<>>
    ELSE LET rest == first_occurrences(SubSeq(lst, 1, Len(lst) - 1))
         IN IF lst[Len(lst)] \in Range(rest) THEN rest
            ELSE Append(rest, lst[Len(lst)])

\* np.sum(P == j)
count(lst, j) == Len(Where(lst, j))

\* norm(Q[:, P == j].T.dot(r))**2 * f(p) with r = y.  After an update of r
\* over the full basis every entry of Q.T r carries the same factor, which
\* multiplies c1 and c2 alike.
group_cost(j) ==
    LET idx == Where(LP, j)
    IN SumTo([x \in 0 .. (Len(idx) - 1) |->
                 LQ[idx[x + 1]].qy * LQ[idx[x + 1]].qy], Len(idx))
       * f(fid, Len(idx))

\* Q[:, :t].dot(path[i]) is defined when Q[:, :t] has as many columns as
\* path[i] has entries (Q.shape[1])
dot_defined(tt) == Min(tt, LCols) = LCols

\* r = y.ravel(): r is a view of the caller's y, not a copy
ravel(buf) == buf

\* alpha = 1 - np.sqrt(c2 / c1): nan when c1 is 0 (then c2 is 0 too)
alpha_nan(c1, c2) == c1 = 0

\* r = r - Q[:, :t].dot(path[i]): the difference is a new array and the name
\* r is rebound to it; the buffer r was bound to is left as it was.  The
\* new array is all nan when the path row or the old r is.
minus(rr, row_nan) ==
    [r |-> IF row_nan \/ rr = "nan" THEN "nan" ELSE "new", ybuf |-> ybuf]

\* lines 146-151
mkl_lars_setup ==
    /\ pc = "returned"
    /\ \E ko \in {first_occurrences(LP)} :
          /\ korder' = ko
          /\ IF ko = <<>>
             THEN /\ pc' = "lars_raised"
                  /\ err' = "IndexError"
                  /\ path' = <<>>
                  /\ t' = 0
             ELSE /\ pc' = IF Len(ko) > 1 THEN "lars_pair" ELSE "lars_jump"
                  /\ err' = err
                  /\ path' = [x \in 1 .. Len(ko) |-> <<>>]
                  /\ t' = count(LP, ko[1])
    /\ li' = 0
    /\ c1c2' = <<>>
    /\ upd' = <<>>
    /\ r' = ravel("y")
    /\ ybuf' = ybuf
    /\ UNCHANGED <<ret, oriented, qrvars, kvars>>

\* lines 154-164: one pair (k1, k2) of consecutive groups
mkl_lars_pair ==
    /\ pc = "lars_pair"
    /\ \E c1 \in {group_cost(korder[li + 1])} :
       \E c2 \in {group_cost(korder[li + 2])} :
       \E t1 \in {t + count(LP, korder[li + 2])} :
          /\ c1c2' = Append(c1c2, <<c1, c2>>)
          /\ IF ~(c2 <= c1)
             THEN /\ pc' = "lars_raised"
                  /\ err' = "AssertionError: c2 <= c1"
                  /\ UNCHANGED <<path, t, li, upd, r, ybuf>>
             ELSE /\ path' = [path EXCEPT ![li + 1] = Append(@, <<"pair", li>>)]
                  /\ t' = t1
                  /\ IF dot_defined(t1)
                     THEN /\ upd' = Append(upd, Min(t1, LCols))
                          /\ r' = minus(r, alpha_nan(c1, c2)).r
                          /\ ybuf' = minus(r, alpha_nan(c1, c2)).ybuf
                          /\ li' = li + 1
                          /\ pc' = IF li + 2 < Len(korder) THEN "lars_pair"
                                    ELSE "lars_jump"
                          /\ err' = err
                     ELSE /\ pc' = "lars_raised"
                          /\ err' = "ValueError: shapes not aligned"
                          /\ UNCHANGED <<li, upd, r, ybuf>>
    /\ UNCHANGED <<ret, oriented, korder, qrvars, kvars>>

\* lines 167-171: the jump to the least-squares solution.  Q is orthonormal,
\* so Q.T r vanishes after the jump unless r is nan, and a nan norm fails
\* the comparison of the final assertion.
mkl_lars_jump ==
    /\ pc = "lars_jump"
    /\ path' = [path EXCEPT ![Len(path)] = Append(@, <<"jump">>)]
    /\ upd' = Append(upd, LCols)
    /\ r' = minus(r, r = "nan").r
    /\ ybuf' = minus(r, r = "nan").ybuf
    /\ IF r = "nan"
       THEN pc' = "lars_raised" /\ err' = "AssertionError: norm(Q.T.dot(r)) < 1e-3"
       ELSE pc' = "lars_done" /\ err' = err
    /\ UNCHANGED <<ret, oriented, korder, t, li, c1c2, qrvars, kvars>>

\* ------------------------------------------------------------- poly_kernel
\* x.dot(y.T) for matrices given as sequences of rows
dot_T(x, y) ==
    [a \in 1 .. Len(x) |->
        [b \in 1 .. Len(y) |->
            SumTo([d \in 0 .. (Len(x[a]) - 1) |-> x[a][d + 1] * y[b][d + 1]],
                  Len(x[a]))]]

\* M ** p, element-wise
elem_pow(M, p) ==
    [a \in DOMAIN M |-> [b \in DOMAIN M[a] |-> Pow(M[a][b], p)]]

\* poly_kernel(x, y, p=2, b=0); kind tells which test of the code x passes:
\* sp.isspmatrix(x), not hasattr(x, "shape"), or neither (a dense array)
poly_kernel(kind, x, y, p, b) ==
    IF kind = "sparse" THEN elem_pow(dot_T(x, y), p)
    ELSE IF kind = "shapeless" THEN Pow(x * y, p)
    ELSE elem_pow(dot_T(x, y), p)

Matrices(d) ==
    UNION {[1 .. rows -> [1 .. d -> 0 .. MaxVal]] : rows \in 1 .. MaxRows}

KernelInputs ==
    {<<"shapeless", x, y, p, b>> :
        x \in 0 .. MaxVal, y \in 0 .. MaxVal, p \in 1 .. MaxP, b \in 0 .. MaxB}
    \cup UNION {{<<kind, x, y, p, b>> :
                    kind \in {"sparse", "dense"}, x \in Matrices(d),
                    y \in Matrices(d), p \in 1 .. MaxP, b \in 0 .. MaxB} :
                d \in 1 .. MaxDim}

\* lines 33-55: one call of poly_kernel
poly_kernel_call ==
    /\ kpc = "call"
    /\ kout' = <<poly_kernel(kin[1], kin[2], kin[3], kin[4], kin[5])>>
    /\ kpc' = "done"
    /\ UNCHANGED <<pc, err, ret, oriented, qrvars, larsvars, kin>>

\* ------------------------------------------------------------ specification
NoKernelCall == kin = <<>> /\ kout = <<>> /\ kpc = "idle"

Init ==
    /\ pc = "call"
    /\ err = "none"
    /\ warned = 0
    /\ k \in 1 .. MaxK
    /\ n \in 1 .. MaxN
    /\ rank0 \in 0 .. MaxRank
    /\ rank = rank0
    /\ delta \in 0 .. MaxDelta
    /\ fid \in Penalties
    /\ step = 0
    /\ Gs = <<>> /\ Acts = <<>> /\ Inas = <<>>
    /\ Q = <<>> /\ R = <<>> /\ P = <<>>
    /\ corr = <<>> /\ cost = <<>> /\ ncol = <<>>
    /\ gain = <<>> /\ Ga = <<>>
    /\ porder = <<>>
    /\ ret = <<>>
    /\ oriented = FALSE
    /\ korder = <<>> /\ path = <<>> /\ t = 0 /\ li = 0
    /\ c1c2 = <<>> /\ upd = <<>>
    /\ r = "unbound" /\ ybuf = "y"
    /\ NoKernelCall

Next ==
    \/ mkl_qr_setup
    \/ mkl_qr_gains
    \/ mkl_qr_exhausted
    \/ mkl_qr_assert_pivot
    \/ mkl_qr_commit
    \/ mkl_qr_assert_qr
    \/ mkl_qr_finalize
    \/ mkl_lars_setup
    \/ mkl_lars_pair
    \/ mkl_lars_jump

Spec == Init /\ [][Next]_vars

\* The kernel library on its own: one call of poly_kernel per behaviour.
InitKernel ==
    /\ pc = "idle"
    /\ err = "none"
    /\ warned = 0
    /\ k = 1 /\ n = 1 /\ rank0 = 0 /\ rank = 0 /\ delta = 0
    /\ fid = "p_const"
    /\ step = 0
    /\ Gs = <<>> /\ Acts = <<>> /\ Inas = <<>>
    /\ Q = <<>> /\ R = <<>> /\ P = <<>>
    /\ corr = <<>> /\ cost = <<>> /\ ncol = <<>>
    /\ gain = <<>> /\ Ga = <<>>
    /\ porder = <<>>
    /\ ret = <<>>
    /\ oriented = FALSE
    /\ korder = <<>> /\ path = <<>> /\ t = 0 /\ li = 0
    /\ c1c2 = <<>> /\ upd = <<>>
    /\ r = "unbound" /\ ybuf = "y"
    /\ kin \in KernelInputs
    /\ kout = <<>>
    /\ kpc = "call"

NextKernel == poly_kernel_call

SpecKernel == InitKernel /\ [][NextKernel]_vars

\* ------------------------------------------------------------------ claims
Unallocated ==
    /\ Gs = <<>> /\ Acts = <<>> /\ Inas = <<>>
    /\ Q = <<>> /\ R = <<>> /\ P = <<>>
    /\ corr = <<>> /\ cost = <<>> /\ ncol = <<>> /\ gain = <<>> /\ Ga = <<>>
    /\ porder = <<>> /\ step = 0 /\ warned = 0

AfterReturn == pc \in {"returned", "lars_pair", "lars_jump", "lars_done", "lars_raised"}
LarsEnded == pc \in {"lars_done", "lars_raised"}

AllActive ==
    /\ Acts # <<>>
    /\ \A j \in Kernels : Range(Acts[j]) = Samples

\* C1: a call with delta = 1 ends in the ValueError, whatever the other
\* arguments, with no buffer allocated, no step taken and nothing returned.
C1_DeltaOneRaises ==
    (delta = 1 /\ pc # "call") =>
        /\ pc = "raised"
        /\ err = "ValueError: unstable delta"
        /\ ret = <<>>
        /\ oriented = FALSE
        /\ Unallocated

C1_Witness == delta = 1 /\ pc = "raised" /\ k > 1 /\ rank0 > 0

\* C2: at every selection point the gain of each committed (kernel, pivot)
\* is -inf, no active set holds a pivot twice, and the selected cell is not
\* already active (the assertion 'pivot not in Acts[kern]' cannot fail).
C2_NoPivotTwice ==
    pc = "select" =>
        /\ \A j \in Kernels : \A i \in Range(Acts[j]) : gain[j][i] = NegInf
        /\ \A j \in Kernels : Cardinality(Range(Acts[j])) = Len(Acts[j])
        /\ ArgMax(gain)[2] \notin Range(Acts[ArgMax(gain)[1]])

\* C3: when the loop still has steps to take and every pivot of every kernel
\* is active, mkl_qr does not raise: it warns once, truncates rank to the
\* step count (below the requested rank) and goes on to return.
C3_ExhaustionTruncates ==
    (AllActive /\ step < rank0 /\ pc \notin {"gains", "select"}) =>
        /\ pc # "raised"
        /\ warned = 1
        /\ rank = step
        /\ rank < rank0

\* C4: in the loop len(P) = step and ncol counts the occurrences in P; the
\* assertion rank == len(porder) holds; on return the effective rank is the
\* requested rank, or the step whose maximal gain was 0 (one warning, no
\* further step), and P, porder, Q and R all have that size.
C4_EffectiveRank ==
    /\ pc \in {"gains", "select"} =>
          /\ Len(P) = step
          /\ rank = rank0
          /\ \A j \in Kernels : ncol[j] = count(P, j)
    /\ err # "AssertionError: rank == len(porder)"
    /\ AfterReturn =>
          /\ warned \in {0, 1}
          /\ warned = 0 => rank = rank0
          /\ warned = 1 => (rank = step /\ gain[ArgMax(gain)[1]][ArgMax(gain)[2]] = 0)
          /\ Len(P) = rank
          /\ \A j \in Kernels : ncol[j] = count(P, j)
          /\ Len(porder) = rank
          /\ Len(ret[3]) = rank
          /\ \A x \in 1 .. Len(ret[3]) : ret[3][x] \in Kernels
          /\ DOMAIN ret[1] = 0 .. (rank - 1)
          /\ ret[2] = <<rank, rank>>

C4_Witness == pc = "returned" /\ warned = 1 /\ rank > 0 /\ rank < rank0

\* C5: once mkl_qr has returned, and through mkl_lars to its end, every
\* entry of Q^T y is non-negative; the returned Q and P are the oriented,
\* reordered and truncated ones and mkl_lars changes neither them nor y.
C5_SignsNonNegative ==
    AfterReturn =>
        /\ \A c \in DOMAIN ret[1] : ret[1][c].qy >= 0
        /\ ret[1] = truncate_Q(Q, rank)
        /\ ret[3] = permute_P(P, porder)
        /\ ybuf = "y"

C5_Witness ==
    /\ pc = "lars_done"
    /\ oriented
    /\ porder # [x \in 1 .. Len(porder) |-> x - 1]

\* C6: for dense matrix inputs poly_kernel returns (b + x.y^T)^p element-wise;
\* for shapeless inputs it returns (x*y)^p.
C6_BiasApplied ==
    kpc = "done" =>
        IF kin[1] = "dense"
        THEN kout[1] = [a \in DOMAIN kin[2] |-> [b \in DOMAIN kin[3] |->
                           Pow(kin[5] + dot_T(kin[2], kin[3])[a][b], kin[4])]]
        ELSE kin[1] = "shapeless" => kout[1] = Pow(kin[2] * kin[3], kin[4])

\* C7: porder is a permutation of 0..rank-1; the returned P lists the
\* kernels in blocks of non-increasing final cost, each kernel once, with
\* its columns in selection order; a kernel has as many entries as columns
\* it committed; entry i is the kernel that produced returned column i.
C7_GroupOrder ==
    AfterReturn =>
        LET RP == ret[3]
            RQ == ret[1]
        IN /\ Len(porder) = rank
           /\ Range(porder) = 0 .. (rank - 1)
           /\ Len(RP) = rank
           /\ \A a, b \in 1 .. Len(RP) :
                 a < b =>
                   /\ cost[RP[a]] >= cost[RP[b]]
                   /\ RP[a] = RP[b] => porder[a] < porder[b]
                   /\ RP[a] = RP[b] => \A m \in a .. b : RP[m] = RP[a]
           /\ \A j \in Kernels : count(RP, j) = ncol[j]
           /\ \A a \in 1 .. Len(RP) :
                 /\ RP[a] = P[porder[a] + 1]
                 /\ RQ[a - 1].kern = RP[a]
                 /\ RQ[a - 1].sel = porder[a]

C7_Witness ==
    /\ pc = "returned"
    /\ Len(first_occurrences(ret[3])) >= 2
    /\ \E j \in Kernels : ncol[j] >= 2
    /\ ret[3] # P

\* C8: when mkl_lars ends on the result of mkl_qr, the assertion c2 <= c1
\* has been evaluated and found true for every consecutive pair of groups,
\* the first pair's c1 and c2 being the costs mkl_qr ordered the groups by.
C8_EveryPairOrdered ==
    (LarsEnded /\ korder # <<>>) =>
        /\ Len(c1c2) = Len(korder) - 1
        /\ \A x \in 1 .. Len(c1c2) : c1c2[x][2] <= c1c2[x][1]
        /\ Len(c1c2) >= 1 => c1c2[1] = <<cost[korder[1]], cost[korder[2]]>>

\* C9: for g groups mkl_lars ends normally after g-1 pair steps and the
\* jump: korder is the first-occurrence order, path has g rows, row i is
\* written once by pair step i and the last row once by the jump, every
\* update of r and mu is well-formed, and t ends at the column count of Q
\* (stated for runs in which no c1 is zero).
C9_PathWellFormed ==
    (LarsEnded /\ korder # <<>> /\ \A x \in 1 .. Len(c1c2) : c1c2[x][1] > 0) =>
        LET g == Len(korder)
        IN /\ pc = "lars_done"
           /\ korder = first_occurrences(ret[3])
           /\ Len(path) = g
           /\ \A x \in 1 .. (g - 1) : path[x] = << <<"pair", x - 1>> >>
           /\ path[g] = << <<"jump">> >>
           /\ Len(upd) = g
           /\ \A x \in 1 .. (g - 1) :
                 upd[x] = SumTo([m \in 0 .. x |-> count(ret[3], korder[m + 1])], x + 1)
           /\ t = LCols

\* C10: with delta > 0, at every selection point the block given to zy2_app
\* for kernel j is the columns ncol[j] .. ncol[j]+delta-1 of Gs[j], none of
\* them a committed column.
C10_OwnLookahead ==
    (pc = "select" /\ delta > 0) =>
        \A j \in Kernels :
            /\ Ga[j] = {c \in DOMAIN Gs[j] : c >= ncol[j] /\ c < ncol[j] + delta}
            /\ \A c \in Ga[j] : Gs[j][c] \in {ZeroG, LookG}

====
